---- MODULE Spec2Model ----
(***************************************************************************)
(* Notification service: the orchestrator NotificationService             *)
(* .send_notification, the time-window deduplication policy, the channel  *)
(* manager and the notification / deduplication-log tables.               *)
(*                                                                         *)
(* Each element of Calls is one invocation of send_notification on its    *)
(* own draft; invocations interleave at the granularity of their database *)
(* operations and of the channel call (the request context and the        *)
(* scheduler's worker pool run them concurrently, each on its own         *)
(* session).                                                               *)
(*                                                                         *)
(* NotificationScheduler: its running flag, the job engine it wraps, the   *)
(* bulk load of start(), the runtime add and remove of jobs and the        *)
(* executions the engine starts on the worker pool.                        *)
(***************************************************************************)
EXTENDS Integers, FiniteSets, Sequences, TLC

\* ------------------------------------------------------------------ bounds
NumCalls == 2
MaxTime == 61
MaxDbFaults == 1
NumEvents == 3
MaxOps == 3
NumJobs == 2

\* ------------------------------------------------------- program constants
WindowSeconds == 60
max_instances == 1

Calls == 1..NumCalls

\* the instants at which the clock is observed: the start, one second later,
\* and one second more than a window length after the start, so that two
\* observations lie 1, WindowSeconds or WindowSeconds + 1 seconds apart
Instants == {t \in 0..MaxTime : t \in {0, 1, WindowSeconds + 1}}

NoTime == -1
NoSubject == "none"

Contents == {"c1", "c2"}

\* what the handlers hand to send_notification: <<channel, recipient, content>>
DraftInputs == {<<"email", "r1", "c1">>, <<"slack", "r2", "c1">>, <<"pager", "r1", "c2">>}

\* ChannelManager._get_channels: the registered channel names
RegisteredChannels == {"email", "slack"}

\* NotificationStatus
PENDING == "pending"
SENT == "sent"
FAILED == "failed"
DUPLICATE == "duplicate"
Terminal == {SENT, FAILED, DUPLICATE}

\* TemplateManager.get_content_hash: a fixed digest of the rendered text
get_content_hash(c) == <<"sha256", c>>

\* ------------------------------------------------------------ classifier
\* Event.data as the route builds it: a dictionary, here the function from its
\* keys to their values, or something that is not a dictionary
Keys == {"user_name", "email", "service_name", "recipient", "slack_channel",
         "cron", "query"}
Sources == {"user_signup", "daily_stat", "bogus"}
Dict(K, src) == [isdict |-> TRUE,
                 map |-> [k \in K \cup {"source"} |-> IF k = "source" THEN src ELSE "v"]]
NoData == [isdict |-> FALSE, map |-> [k \in {} |-> "v"]]
RequestDatas == {Dict(K, src) : K \in SUBSET Keys, src \in Sources}

\* SignupEvent.__init__: the keys it requires
SignupEvent(data) ==
    IF \/ "user_name" \notin DOMAIN data
       \/ "email" \notin DOMAIN data
       \/ "service_name" \notin DOMAIN data
       \/ "recipient" \notin DOMAIN data
       \/ "slack_channel" \notin DOMAIN data
    THEN "MissingField"
    ELSE "handler"

\* ------------------------------------------------------------- scheduler
EventIds == 1..NumEvents

\* cron expressions as the characters that matter: fields and the blanks between
Blank1 == " "
Daily9 == <<"0", Blank1, "9", Blank1, "*", Blank1, "*", Blank1, "*">>
Padded == <<Blank1, "*", Blank1, Blank1, "*", Blank1, "*", Blank1, "*", Blank1, "*", Blank1>>
ThreeFields == <<"0", Blank1, "9", Blank1, "*">>
BadHour == <<"0", Blank1, "99", Blank1, "*", Blank1, "*", Blank1, "*">>
CronExprs == {Daily9, Padded, ThreeFields, BadHour}

\* Event.data of a scheduled event, with and without the cron key
EventData(c) == [source |-> "daily_stat", query |-> "daily_stats", recipient |-> "r1",
                 slack_channel |-> "r2", cron |-> c]
NoCronData == [source |-> "daily_stat", query |-> "daily_stats", recipient |-> "r1",
               slack_channel |-> "r2"]
EventDatas == {NoCronData} \cup {EventData(c) : c \in CronExprs}

\* a fixed order of the event data, by which the persisted rows are numbered
DataOrder == <<NoCronData, EventData(ThreeFields), EventData(BadHour),
               EventData(Daily9), EventData(Padded)>>
DataRank(d) == CHOOSE i \in 1..Len(DataOrder) : DataOrder[i] = d

\* a scheduled event that registers but lacks a key its handler requires
NoSlackData == [source |-> "daily_stat", query |-> "daily_stats", recipient |-> "r1",
                cron |-> Daily9]
JobEventDatas == {EventData(Daily9), NoSlackData}

\* scheduled events as the route scheduled_event accepts them under another
\* source: the keys of a daily report, the source of a sign-up or of no handler
SourcedData(src) == [EventData(Daily9) EXCEPT !.source = src]
SourcedEventDatas == {SourcedData("user_signup"), SourcedData("bogus")}

\* DailyStatEvent.__init__ without the cron test of ScheduleEvent
DailyStatEvent_NoCronCheck(data) ==
    IF {"query", "recipient", "slack_channel"} \subseteq DOMAIN data
    THEN "handler"
    ELSE "MissingField"

\* ScheduleEvent.__init__ and DailyStatEvent.__init__: the keys they require
DailyStatEvent(data) ==
    IF "cron" \notin DOMAIN data
    THEN "MissingField"
    ELSE IF {"query", "recipient", "slack_channel"} \subseteq DOMAIN data
         THEN "handler"
         ELSE "MissingField"

\* DailyStatEvent.create_notifications: the report rendered from query_data(),
\* which returns the same figures on every call
DailyContent == "c1"

\* EventManager.EVENT_TYPE_MAP
EVENT_TYPE_MAP == {"daily_stat", "user_signup"}

\* EventManager.create_event_source: the handler built for the event, or the
\* ValueError raised, named after what it reports
create_event_source(data) ==
    IF ~ data.isdict
    THEN [kind |-> "error", what |-> "NotADict"]
    ELSE IF "source" \notin DOMAIN data.map
    THEN [kind |-> "error", what |-> "NoSource"]
    ELSE IF data.map["source"] \notin EVENT_TYPE_MAP
    THEN [kind |-> "error", what |-> "UnknownSource"]
    ELSE LET built == IF data.map["source"] = "daily_stat"
                      THEN DailyStatEvent(data.map)
                      ELSE SignupEvent(data.map)
         IN  IF built = "handler"
             THEN [kind |-> "handler", what |-> data.map["source"]]
             ELSE [kind |-> "error", what |-> built]

\* _parse_cron: cron_expression.strip().split()
split(expr) == SelectSeq(expr, LAMBDA t : t # Blank1)

\* _parse_cron: convert_part
None == "None"
convert_part(part) == IF part = "*" THEN None ELSE part

NoTrigger == [minute |-> None, hour |-> None, day |-> None,
              month |-> None, day_of_week |-> None, valid |-> FALSE]

\* _parse_cron: the keyword arguments for CronTrigger, or a ValueError
parse_cron(expr) ==
    LET parts == split(expr)
    IN  IF Len(parts) # 5
        THEN [raised |-> TRUE, parts |-> NoTrigger]
        ELSE [raised |-> FALSE,
              parts |-> [minute |-> convert_part(parts[1]),
                         hour |-> convert_part(parts[2]),
                         day |-> convert_part(parts[3]),
                         month |-> convert_part(parts[4]),
                         day_of_week |-> convert_part(parts[5]),
                         valid |-> TRUE]]

\* CronTrigger(**cron_parts): a field outside its range is a ValueError
CronTrigger(parts) ==
    IF parts.minute \in {None, "0", "9"} /\ parts.hour \in {None, "0", "9"}
    THEN [raised |-> FALSE, trigger |-> parts]
    ELSE [raised |-> TRUE, trigger |-> NoTrigger]

\* a job of the engine: its trigger and the event id its function is called with
Job(trigger, e) == [trigger |-> trigger, args |-> e]

\* the engine's add_job(id, replace_existing = True) on the job table js, which
\* is keyed by job id: a job of that id is replaced, any other id is added
add_job(js, id, job) == (id :> job) @@ js

\* the jobs of the table js that process event e
JobsFor(js, e) == {j \in DOMAIN js : js[j].args = e}

\* _add_event_job, leaving the job id to the engine: an event that has a job
\* already gets another one under a generated id
add_event_job_GeneratedId(js, e, data) ==
    IF "cron" \notin DOMAIN data
    THEN [raised |-> FALSE, jobs |-> js]
    ELSE LET parsed == parse_cron(data.cron)
         IN  IF parsed.raised
             THEN [raised |-> TRUE, jobs |-> js]
             ELSE LET trig == CronTrigger(parsed.parts)
                  IN  IF trig.raised
                      THEN [raised |-> TRUE, jobs |-> js]
                      ELSE [raised |-> FALSE,
                            jobs |-> add_job(js, IF e \in DOMAIN js THEN e + NumEvents ELSE e,
                                             Job(trig.trigger, e))]

\* _add_event_job on the job table js: no cron key returns without a job and
\* without an exception; a parse or trigger error is raised again; otherwise
\* add_job(id = event.id, args = [event.id], replace_existing = True)
add_event_job(js, e, data) ==
    IF "cron" \notin DOMAIN data
    THEN [raised |-> FALSE, jobs |-> js]
    ELSE LET parsed == parse_cron(data.cron)
         IN  IF parsed.raised
             THEN [raised |-> TRUE, jobs |-> js]
             ELSE LET trig == CronTrigger(parsed.parts)
                  IN  IF trig.raised
                      THEN [raised |-> TRUE, jobs |-> js]
                      ELSE [raised |-> FALSE, jobs |-> add_job(js, e, Job(trig.trigger, e))]

VARIABLES
    now,            \* the clock read by datetime.utcnow()
    notifications,  \* the notifications table: id -> row
    dedupLog,       \* the deduplication_logs table: content_hash -> number of entries
    pc,             \* position of each send_notification invocation
    draft,          \* the Notification object each invocation works on
    ret,            \* what the invocation gave its caller: none / true / false / raised
    dispatches,     \* number of channel_manager.send calls made by the invocation
    sends,          \* number of channel.send calls made by the invocation
    chanOutcome,    \* what the channel call did: none / ok / false / raise / unknown / invalid
    seenAtCheck,    \* ids stored in the table when the dedup check ran
    shouldSend,     \* result of DeduplicationManager.handle: none / yes / no
    faults,         \* number of database faults injected so far
    is_running,     \* NotificationScheduler.is_running
    engine,         \* state of the wrapped job engine: stopped / running
    jobs,           \* the engine's jobs: job id -> trigger and event id
    events,         \* the persisted events of type "scheduled": id -> data
    spc,            \* position of start(): idle / loading / starting
    loadQueue,      \* events the bulk load has still to go through
    attempted,      \* events the last bulk load registered or failed on
    fired,          \* jobs of which an execution has begun since construction
    instances,      \* number of running executions of each job's body
    lastOp,         \* the last scheduler call that completed and what it returned
    ops,            \* number of scheduler calls completed
    jpc,            \* position of the running body of each job: idle / sending / return
    jcall,          \* the send_notification call made by the last body of each job
    jres,           \* how the last body of each job ended
    rpc,            \* position of the real_time_event request: idle / create / process / sending / done
    rin,            \* event_data built from the request
    rres,           \* the response of the request: none / success / 400 / 500
    rtEvents,       \* the rows the request has added to the events table
    rdrafts,        \* number of notifications the handler drafted for the request
    unscheduled     \* events taken off the schedule: their job was removed, or they
                    \* were accepted with enabled = false, and not registered since

vars == <<now, notifications, dedupLog, pc, draft, ret, dispatches, sends,
          chanOutcome, seenAtCheck, shouldSend, faults,
          is_running, engine, jobs, events, spc, loadQueue, attempted,
          fired, instances, lastOp, ops, jpc, jcall, jres,
          rpc, rin, rres, rtEvents, rdrafts, unscheduled>>

requestVars == <<rpc, rin, rres, rtEvents, rdrafts>>

routeVars == <<requestVars, unscheduled>>

jobVars == <<jpc, jcall, jres>>

schedVars == <<is_running, engine, jobs, events, spc, loadQueue, attempted,
               fired, instances, lastOp, ops, jobVars, routeVars>>

callVars == <<pc, draft, ret, dispatches, sends, chanOutcome,
              seenAtCheck, shouldSend>>

NoDraft == [id |-> 0, event_id |-> 0,
            channel |-> "none", recipient |-> "none", subject |-> NoSubject,
            content |-> "none", content_hash |-> <<"none", "none">>,
            status |-> "none", created_at |-> NoTime, sent_at |-> NoTime]

\* a handler's create_notifications: one draft, status pending, created_at = utcnow()
NewDraft(i, ch, r, c) ==
    [id |-> i, event_id |-> 0,
     channel |-> ch, recipient |-> r, subject |-> NoSubject,
     content |-> c, content_hash |-> get_content_hash(c),
     status |-> PENDING, created_at |-> now, sent_at |-> NoTime]

\* NotificationRepository.create_from_instance: notification.subject or "No Subject"
with_subject(n) ==
    [n EXCEPT !.subject = IF n.subject = NoSubject THEN "No Subject" ELSE n.subject]

\* create_from_instance, storing the content with its surrounding blanks removed
create_from_instance_Strips(tbl, n) ==
    (n.id :> [with_subject(n) EXCEPT !.content = "stripped"]) @@ tbl

\* NotificationRepository.create_from_instance: add, commit
create_from_instance(tbl, n) == (n.id :> with_subject(n)) @@ tbl

\* any, without the exclusion of the candidate's own id
any_CountsSelf(tbl, id, hash, seconds) ==
    LET threshold == now - seconds
    IN  Cardinality({m \in DOMAIN tbl :
                        /\ tbl[m].content_hash = hash
                        /\ tbl[m].created_at >= threshold}) > 0

\* any, counting only rows addressed to the candidate's own recipient
any_PerRecipient(tbl, id, hash, seconds) ==
    LET threshold == now - seconds
    IN  Cardinality({m \in DOMAIN tbl :
                        /\ tbl[m].content_hash = hash
                        /\ tbl[m].created_at >= threshold
                        /\ m # id
                        /\ id \in DOMAIN tbl => tbl[m].recipient = tbl[id].recipient}) > 0

\* NotificationRepository.any
any(tbl, id, hash, seconds) ==
    LET threshold == now - seconds
    IN  Cardinality({m \in DOMAIN tbl :
                        /\ tbl[m].content_hash = hash
                        /\ tbl[m].created_at >= threshold
                        /\ m # id}) > 0

\* should_send, looking only at rows that were already delivered
should_send_SentOnly(tbl, n) ==
    ~ any([m \in {k \in DOMAIN tbl : tbl[k].status = SENT} |-> tbl[m]],
          n.id, n.content_hash, WindowSeconds)

\* TimeWindowPolicy.should_send
should_send(tbl, n) == ~ any(tbl, n.id, n.content_hash, WindowSeconds)

\* update_status, dropping the content of a row that is not sent
update_status_DropsContent(tbl, id, status, sent_at) ==
    IF id \in DOMAIN tbl
    THEN [tbl EXCEPT ![id] =
            [@ EXCEPT !.status = status,
                      !.content = IF status = SENT THEN @ ELSE "none",
                      !.sent_at = IF sent_at # NoTime THEN sent_at
                                  ELSE IF status = SENT THEN now
                                  ELSE @]]
    ELSE tbl

\* update_status, stamping sent_at on every status
update_status_AlwaysStamps(tbl, id, status, sent_at) ==
    IF id \in DOMAIN tbl
    THEN [tbl EXCEPT ![id] =
            [@ EXCEPT !.status = status,
                      !.sent_at = IF sent_at # NoTime THEN sent_at ELSE now]]
    ELSE tbl

\* NotificationRepository.update_status
update_status(tbl, id, status, sent_at) ==
    IF id \in DOMAIN tbl
    THEN [tbl EXCEPT ![id] =
            [@ EXCEPT !.status = status,
                      !.sent_at = IF sent_at # NoTime THEN sent_at
                                  ELSE IF status = SENT THEN now
                                  ELSE @]]
    ELSE tbl

\* DeduplicationRepository.log_deduplication
log_deduplication(log, hash) == [log EXCEPT ![hash] = @ + 1]

\* the service before any call
InitSend ==
    /\ now = 0
    /\ notifications = [i \in {} |-> NoDraft]
    /\ dedupLog = [h \in {get_content_hash(c) : c \in Contents} |-> 0]
    /\ pc = [p \in Calls |-> "idle"]
    /\ draft = [p \in Calls |-> NoDraft]
    /\ ret = [p \in Calls |-> "none"]
    /\ dispatches = [p \in Calls |-> 0]
    /\ sends = [p \in Calls |-> 0]
    /\ chanOutcome = [p \in Calls |-> "none"]
    /\ seenAtCheck = [p \in Calls |-> {}]
    /\ shouldSend = [p \in Calls |-> "none"]
    /\ faults = 0

\* NotificationScheduler.__init__ over the persisted scheduled events ev
InitScheduler(ev) ==
    /\ is_running = FALSE
    /\ engine = "stopped"
    /\ jobs = [e \in {} |-> NoTrigger]
    /\ events = ev
    /\ spc = "idle"
    /\ loadQueue = {}
    /\ attempted = {}
    /\ fired = {}
    /\ instances = [e \in EventIds |-> 0]
    /\ lastOp = [op |-> "none", id |-> 0, result |-> "none"]
    /\ ops = 0
    /\ jpc = [e \in EventIds |-> "idle"]
    /\ jcall = [e \in EventIds |-> 0]
    /\ jres = [e \in EventIds |-> "none"]
    /\ rpc = "idle"
    /\ rin = NoData
    /\ rres = "none"
    /\ rtEvents = <<>>
    /\ rdrafts = 0
    /\ unscheduled = {}

Init ==
    /\ InitSend
    /\ InitScheduler([e \in EventIds |-> EventData(Daily9)])

\* the clock advances to a later one of the instants at which it is observed
Tick ==
    /\ \E t \in Instants :
          /\ t > now
          /\ now' = t
    /\ UNCHANGED <<notifications, dedupLog, callVars, faults>>
    /\ UNCHANGED schedVars

\* a handler drafts a notification and its caller enters send_notification
Begin(p) ==
    /\ pc[p] = "idle"
    /\ \A q \in Calls : q < p => pc[q] # "idle"
    /\ \E d \in DraftInputs :
          draft' = [draft EXCEPT ![p] = NewDraft(p, d[1], d[2], d[3])]
    /\ pc' = [pc EXCEPT ![p] = "create"]
    /\ UNCHANGED <<now, notifications, dedupLog, ret, dispatches, sends,
                   chanOutcome, seenAtCheck, shouldSend, faults>>
    /\ UNCHANGED schedVars

\* Create, with the insert left out
Create_Skipped(p) ==
    /\ pc[p] = "create"
    /\ draft' = [draft EXCEPT ![p] = with_subject(@)]
    /\ pc' = [pc EXCEPT ![p] = "dedup"]
    /\ UNCHANGED <<now, notifications, dedupLog, ret, dispatches, sends,
                   chanOutcome, seenAtCheck, shouldSend, faults>>
    /\ UNCHANGED schedVars

\* send_notification: self.repos.notifications.create_from_instance(notification)
Create(p) ==
    /\ pc[p] = "create"
    /\ notifications' = create_from_instance(notifications, draft[p])
    /\ draft' = [draft EXCEPT ![p] = with_subject(@)]
    /\ pc' = [pc EXCEPT ![p] = "dedup"]
    /\ UNCHANGED <<now, dedupLog, ret, dispatches, sends,
                   chanOutcome, seenAtCheck, shouldSend, faults>>
    /\ UNCHANGED schedVars

\* DeduplicationManager.handle, the policy's should_send query
Dedup(p) ==
    /\ pc[p] = "dedup"
    /\ LET s == should_send(notifications, draft[p])
       IN  /\ shouldSend' = [shouldSend EXCEPT ![p] = IF s THEN "yes" ELSE "no"]
           /\ pc' = [pc EXCEPT ![p] = IF s THEN "dispatch" ELSE "record"]
    /\ seenAtCheck' = [seenAtCheck EXCEPT ![p] = DOMAIN notifications]
    /\ UNCHANGED <<now, notifications, dedupLog, draft, ret, dispatches, sends,
                   chanOutcome, faults>>
    /\ UNCHANGED schedVars

\* Record, writing the deduplication-log entry twice
Record_Twice(p) ==
    /\ pc[p] = "record"
    /\ dedupLog' = log_deduplication(log_deduplication(dedupLog, draft[p].content_hash),
                                      draft[p].content_hash)
    /\ pc' = [pc EXCEPT ![p] = "markdup"]
    /\ UNCHANGED <<now, notifications, draft, ret, dispatches, sends,
                   chanOutcome, seenAtCheck, shouldSend, faults>>
    /\ UNCHANGED schedVars

\* DeduplicationManager.handle, policy.record_duplication(notification)
Record(p) ==
    /\ pc[p] = "record"
    /\ dedupLog' = log_deduplication(dedupLog, draft[p].content_hash)
    /\ pc' = [pc EXCEPT ![p] = "markdup"]
    /\ UNCHANGED <<now, notifications, draft, ret, dispatches, sends,
                   chanOutcome, seenAtCheck, shouldSend, faults>>
    /\ UNCHANGED schedVars

\* send_notification: update_status(id, DUPLICATE, datetime.utcnow()); return False
MarkDuplicate(p) ==
    /\ pc[p] = "markdup"
    /\ notifications' = update_status(notifications, draft[p].id, DUPLICATE, now)
    /\ ret' = [ret EXCEPT ![p] = "false"]
    /\ pc' = [pc EXCEPT ![p] = "done"]
    /\ UNCHANGED <<now, dedupLog, draft, dispatches, sends,
                   chanOutcome, seenAtCheck, shouldSend, faults>>
    /\ UNCHANGED schedVars

\* ChannelManager.send: the outcomes of the lookup, validate_config and channel.send
ChannelResults(n) ==
    IF n.channel \notin RegisteredChannels
    THEN {"unknown"}
    ELSE {"invalid", "ok", "false", "raise"}

\* Dispatch, calling the channel a second time when its send returned False
Dispatch_Retries(p) ==
    /\ pc[p] = "dispatch"
    /\ \E o \in ChannelResults(draft[p]) :
          /\ chanOutcome' = [chanOutcome EXCEPT ![p] = o]
          /\ sends' = [sends EXCEPT ![p] = IF o \in {"ok", "raise"} THEN @ + 1
                                          ELSE IF o = "false" THEN @ + 2
                                          ELSE @]
          /\ pc' = [pc EXCEPT ![p] = IF o \in {"ok", "false"} THEN "marksent" ELSE "except"]
    /\ dispatches' = [dispatches EXCEPT ![p] = @ + 1]
    /\ UNCHANGED <<now, notifications, dedupLog, draft, ret,
                   seenAtCheck, shouldSend, faults>>
    /\ UNCHANGED schedVars

\* send_notification: self.channel_manager.send(notification), its value discarded
Dispatch(p) ==
    /\ pc[p] = "dispatch"
    /\ \E o \in ChannelResults(draft[p]) :
          /\ chanOutcome' = [chanOutcome EXCEPT ![p] = o]
          /\ sends' = [sends EXCEPT ![p] = IF o \in {"ok", "false", "raise"} THEN @ + 1 ELSE @]
          /\ pc' = [pc EXCEPT ![p] = IF o \in {"ok", "false"} THEN "marksent" ELSE "except"]
    /\ dispatches' = [dispatches EXCEPT ![p] = @ + 1]
    /\ UNCHANGED <<now, notifications, dedupLog, draft, ret,
                   seenAtCheck, shouldSend, faults>>
    /\ UNCHANGED schedVars

\* MarkSent, returning True without storing the status
MarkSent_NotStored(p) ==
    /\ pc[p] = "marksent"
    /\ ret' = [ret EXCEPT ![p] = "true"]
    /\ pc' = [pc EXCEPT ![p] = "done"]
    /\ UNCHANGED <<now, notifications, dedupLog, draft, dispatches, sends,
                   chanOutcome, seenAtCheck, shouldSend, faults>>
    /\ UNCHANGED schedVars

\* MarkSent, writing a deduplication-log entry as well
MarkSent_Logs(p) ==
    /\ pc[p] = "marksent"
    /\ notifications' = update_status(notifications, draft[p].id, SENT, now)
    /\ dedupLog' = log_deduplication(dedupLog, draft[p].content_hash)
    /\ ret' = [ret EXCEPT ![p] = "true"]
    /\ pc' = [pc EXCEPT ![p] = "done"]
    /\ UNCHANGED <<now, draft, dispatches, sends,
                   chanOutcome, seenAtCheck, shouldSend, faults>>
    /\ UNCHANGED schedVars

\* send_notification: update_status(id, SENT, datetime.utcnow()); return True
MarkSent(p) ==
    /\ pc[p] = "marksent"
    /\ notifications' = update_status(notifications, draft[p].id, SENT, now)
    /\ ret' = [ret EXCEPT ![p] = "true"]
    /\ pc' = [pc EXCEPT ![p] = "done"]
    /\ UNCHANGED <<now, dedupLog, draft, dispatches, sends,
                   chanOutcome, seenAtCheck, shouldSend, faults>>
    /\ UNCHANGED schedVars

\* HandleException, returning False without storing the status
HandleException_NoStatus(p) ==
    /\ pc[p] = "except"
    /\ ret' = [ret EXCEPT ![p] = "false"]
    /\ pc' = [pc EXCEPT ![p] = "done"]
    /\ UNCHANGED <<now, notifications, dedupLog, draft, dispatches, sends,
                   chanOutcome, seenAtCheck, shouldSend, faults>>
    /\ UNCHANGED schedVars

\* HandleException, storing the status and raising again
HandleException_Reraises(p) ==
    /\ pc[p] = "except"
    /\ notifications' = update_status(notifications, draft[p].id, FAILED, NoTime)
    /\ ret' = [ret EXCEPT ![p] = "raised"]
    /\ pc' = [pc EXCEPT ![p] = "done"]
    /\ UNCHANGED <<now, dedupLog, draft, dispatches, sends,
                   chanOutcome, seenAtCheck, shouldSend, faults>>
    /\ UNCHANGED schedVars

\* send_notification: except Exception: update_status(id, FAILED); return False
HandleException(p) ==
    /\ pc[p] = "except"
    /\ notifications' = update_status(notifications, draft[p].id, FAILED, NoTime)
    /\ ret' = [ret EXCEPT ![p] = "false"]
    /\ pc' = [pc EXCEPT ![p] = "done"]
    /\ UNCHANGED <<now, dedupLog, draft, dispatches, sends,
                   chanOutcome, seenAtCheck, shouldSend, faults>>
    /\ UNCHANGED schedVars

\* ---------------------------------------------------------------------------
\* Database faults.  Every repository write is db.commit() followed by
\* db.refresh(); an exception raised by the commit leaves the table as it was
\* (persisted = FALSE), one raised by the refresh leaves the write in place
\* (persisted = TRUE).  Inside the try block the exception reaches the
\* except clause; inside the except clause it leaves send_notification.
\* ---------------------------------------------------------------------------

\* create_from_instance raises
CreateFault(p) ==
    /\ pc[p] = "create"
    /\ faults < MaxDbFaults
    /\ \E persisted \in BOOLEAN :
          notifications' = IF persisted THEN create_from_instance(notifications, draft[p])
                           ELSE notifications
    /\ draft' = [draft EXCEPT ![p] = with_subject(@)]
    /\ pc' = [pc EXCEPT ![p] = "except"]
    /\ faults' = faults + 1
    /\ UNCHANGED <<now, dedupLog, ret, dispatches, sends,
                   chanOutcome, seenAtCheck, shouldSend>>
    /\ UNCHANGED schedVars

\* the policy's query raises
DedupFault(p) ==
    /\ pc[p] = "dedup"
    /\ faults < MaxDbFaults
    /\ pc' = [pc EXCEPT ![p] = "except"]
    /\ faults' = faults + 1
    /\ UNCHANGED <<now, notifications, dedupLog, draft, ret, dispatches, sends,
                   chanOutcome, seenAtCheck, shouldSend>>
    /\ UNCHANGED schedVars

\* log_deduplication raises
RecordFault(p) ==
    /\ pc[p] = "record"
    /\ faults < MaxDbFaults
    /\ \E persisted \in BOOLEAN :
          dedupLog' = IF persisted THEN log_deduplication(dedupLog, draft[p].content_hash)
                      ELSE dedupLog
    /\ pc' = [pc EXCEPT ![p] = "except"]
    /\ faults' = faults + 1
    /\ UNCHANGED <<now, notifications, draft, ret, dispatches, sends,
                   chanOutcome, seenAtCheck, shouldSend>>
    /\ UNCHANGED schedVars

\* update_status(id, DUPLICATE, utcnow()) raises
MarkDuplicateFault(p) ==
    /\ pc[p] = "markdup"
    /\ faults < MaxDbFaults
    /\ \E persisted \in BOOLEAN :
          notifications' = IF persisted
                           THEN update_status(notifications, draft[p].id, DUPLICATE, now)
                           ELSE notifications
    /\ pc' = [pc EXCEPT ![p] = "except"]
    /\ faults' = faults + 1
    /\ UNCHANGED <<now, dedupLog, draft, ret, dispatches, sends,
                   chanOutcome, seenAtCheck, shouldSend>>
    /\ UNCHANGED schedVars

\* update_status(id, SENT, utcnow()) raises
MarkSentFault(p) ==
    /\ pc[p] = "marksent"
    /\ faults < MaxDbFaults
    /\ \E persisted \in BOOLEAN :
          notifications' = IF persisted
                           THEN update_status(notifications, draft[p].id, SENT, now)
                           ELSE notifications
    /\ pc' = [pc EXCEPT ![p] = "except"]
    /\ faults' = faults + 1
    /\ UNCHANGED <<now, dedupLog, draft, ret, dispatches, sends,
                   chanOutcome, seenAtCheck, shouldSend>>
    /\ UNCHANGED schedVars

\* update_status(id, FAILED) raises inside the except clause
HandleExceptionFault(p) ==
    /\ pc[p] = "except"
    /\ faults < MaxDbFaults
    /\ \E persisted \in BOOLEAN :
          notifications' = IF persisted
                           THEN update_status(notifications, draft[p].id, FAILED, NoTime)
                           ELSE notifications
    /\ ret' = [ret EXCEPT ![p] = "raised"]
    /\ pc' = [pc EXCEPT ![p] = "done"]
    /\ faults' = faults + 1
    /\ UNCHANGED <<now, dedupLog, draft, dispatches, sends,
                   chanOutcome, seenAtCheck, shouldSend>>
    /\ UNCHANGED schedVars

Next ==
    \/ Tick
    \/ \E p \in Calls : Begin(p)
    \/ \E p \in Calls : Create(p)
    \/ \E p \in Calls : Dedup(p)
    \/ \E p \in Calls : Record(p)
    \/ \E p \in Calls : MarkDuplicate(p)
    \/ \E p \in Calls : Dispatch(p)
    \/ \E p \in Calls : MarkSent(p)
    \/ \E p \in Calls : HandleException(p)

\* the service on a database that never fails
Spec == Init /\ [][Next]_vars

NextFaults ==
    \/ Next
    \/ \E p \in Calls : CreateFault(p)
    \/ \E p \in Calls : DedupFault(p)
    \/ \E p \in Calls : RecordFault(p)
    \/ \E p \in Calls : MarkDuplicateFault(p)
    \/ \E p \in Calls : MarkSentFault(p)
    \/ \E p \in Calls : HandleExceptionFault(p)

\* the service on a database whose operations may raise
SpecFaults == Init /\ [][NextFaults]_vars

\* ---------------------------------------------------------------------------
\* NotificationScheduler.  start() runs before the application serves requests
\* and every other call is made from the single request loop, so the calls do
\* not interleave with one another; the job bodies run on the worker pool and
\* interleave with everything.
\* ---------------------------------------------------------------------------
sendVars == <<now, notifications, dedupLog, callVars, faults>>

Completed(o, e, r) ==
    /\ lastOp' = [op |-> o, id |-> e, result |-> r]
    /\ ops' = ops + 1

\* Start_AlreadyRunning, shutting the engine's jobs out
Start_AlreadyRunning_DropsJobs ==
    /\ spc = "idle" /\ ops < MaxOps
    /\ is_running
    /\ jobs' = [e \in {} |-> NoTrigger]
    /\ Completed("start", 0, "noop")
    /\ UNCHANGED <<is_running, engine, events, spc, loadQueue, attempted,
                   fired, instances>>
    /\ UNCHANGED sendVars
    /\ UNCHANGED jobVars
    /\ UNCHANGED routeVars

\* start(): if self.is_running: warning, return
Start_AlreadyRunning ==
    /\ spc = "idle" /\ ops < MaxOps
    /\ is_running
    /\ Completed("start", 0, "noop")
    /\ UNCHANGED <<is_running, engine, jobs, events, spc, loadQueue, attempted,
                   fired, instances>>
    /\ UNCHANGED sendVars
    /\ UNCHANGED jobVars
    /\ UNCHANGED routeVars

\* Start_Begin, reporting the scheduler running before the load and the engine
Start_Begin_MarksRunning ==
    /\ spc = "idle" /\ ops < MaxOps
    /\ ~ is_running
    /\ is_running' = TRUE
    /\ loadQueue' = DOMAIN events
    /\ attempted' = {}
    /\ spc' = IF DOMAIN events = {} THEN "starting" ELSE "loading"
    /\ UNCHANGED <<engine, jobs, events, fired, instances, lastOp, ops>>
    /\ UNCHANGED sendVars
    /\ UNCHANGED jobVars
    /\ UNCHANGED routeVars

\* start(), _load_scheduled_events: scheduled_events = get_scheduled_events()
Start_Begin ==
    /\ spc = "idle" /\ ops < MaxOps
    /\ ~ is_running
    /\ loadQueue' = DOMAIN events
    /\ attempted' = {}
    /\ spc' = IF DOMAIN events = {} THEN "starting" ELSE "loading"
    /\ UNCHANGED <<is_running, engine, jobs, events, fired, instances, lastOp, ops>>
    /\ UNCHANGED sendVars
    /\ UNCHANGED jobVars
    /\ UNCHANGED routeVars

\* _load_scheduled_events: one turn of "for event in scheduled_events:
\* self._add_event_job(event)", the rows in whatever order the query gave them;
\* an exception leaves the loop for the except clause around it, which logs
LoadEvent(e) ==
    /\ spc = "loading"
    /\ e \in loadQueue
    /\ LET r == add_event_job(jobs, e, events[e])
       IN  /\ jobs' = r.jobs
           /\ loadQueue' = IF r.raised THEN {} ELSE loadQueue \ {e}
           /\ spc' = IF r.raised \/ loadQueue = {e} THEN "starting" ELSE "loading"
    /\ attempted' = attempted \cup {e}
    /\ UNCHANGED <<is_running, engine, events, fired, instances, lastOp, ops>>
    /\ UNCHANGED sendVars
    /\ UNCHANGED jobVars
    /\ UNCHANGED routeVars

\* start(): self.scheduler.start(); self.is_running = True
Start_Engine ==
    /\ spc = "starting"
    /\ engine' = "running"
    /\ is_running' = TRUE
    /\ spc' = "idle"
    /\ Completed("start", 0, "ok")
    /\ UNCHANGED <<jobs, events, loadQueue, attempted, fired, instances>>
    /\ UNCHANGED sendVars
    /\ UNCHANGED jobVars
    /\ UNCHANGED routeVars

\* start(): self.scheduler.start() raises; the except clause logs and raises
\* again, and self.is_running = True is not reached
Start_EngineRaises ==
    /\ spc = "starting"
    /\ spc' = "idle"
    /\ Completed("start", 0, "raised")
    /\ UNCHANGED <<is_running, engine, jobs, events, loadQueue, attempted,
                   fired, instances>>
    /\ UNCHANGED sendVars
    /\ UNCHANGED jobVars
    /\ UNCHANGED routeVars

\* stop(): if not self.is_running: warning, return
Stop_NotRunning ==
    /\ spc = "idle" /\ ops < MaxOps
    /\ ~ is_running
    /\ Completed("stop", 0, "noop")
    /\ UNCHANGED <<is_running, engine, jobs, events, spc, loadQueue, attempted,
                   fired, instances>>
    /\ UNCHANGED sendVars
    /\ UNCHANGED jobVars
    /\ UNCHANGED routeVars

\* stop(): self.scheduler.shutdown(); self.is_running = False.  The shutdown
\* waits for the running job bodies and empties the in-memory job store.
Stop ==
    /\ spc = "idle" /\ ops < MaxOps
    /\ is_running
    /\ \A e \in EventIds : instances[e] = 0
    /\ engine' = "stopped"
    /\ jobs' = [e \in {} |-> NoTrigger]
    /\ is_running' = FALSE
    /\ Completed("stop", 0, "ok")
    /\ UNCHANGED <<events, spc, loadQueue, attempted, fired, instances>>
    /\ UNCHANGED sendVars
    /\ UNCHANGED jobVars
    /\ UNCHANGED routeVars

\* add_scheduled_event without the is_running test
AddScheduledEvent_Unguarded(e) ==
    /\ spc = "idle" /\ ops < MaxOps
    /\ LET r == add_event_job(jobs, e, events[e])
       IN  /\ jobs' = r.jobs
           /\ Completed("add", e, IF r.raised THEN "false" ELSE "true")
    /\ UNCHANGED <<is_running, engine, events, spc, loadQueue, attempted,
                   fired, instances>>
    /\ UNCHANGED sendVars
    /\ UNCHANGED jobVars
    /\ UNCHANGED routeVars

\* add_scheduled_event(event), the event as it is persisted
AddScheduledEvent(e) ==
    /\ spc = "idle" /\ ops < MaxOps
    /\ IF ~ is_running
       THEN /\ jobs' = jobs
            /\ Completed("add", e, "false")
            /\ UNCHANGED unscheduled
       ELSE LET r == add_event_job(jobs, e, events[e])
            IN  /\ jobs' = r.jobs
                /\ Completed("add", e, IF r.raised THEN "false" ELSE "true")
                /\ unscheduled' = IF e \in DOMAIN r.jobs THEN unscheduled \ {e}
                                  ELSE unscheduled
    /\ UNCHANGED <<is_running, engine, events, spc, loadQueue, attempted,
                   fired, instances>>
    /\ UNCHANGED sendVars
    /\ UNCHANGED jobVars
    /\ UNCHANGED requestVars

\* remove_scheduled_event, abandoning the running body of the job as well
RemoveScheduledEvent_Cancels(e) ==
    /\ spc = "idle" /\ ops < MaxOps
    /\ jobs' = [k \in DOMAIN jobs \ {e} |-> jobs[k]]
    /\ Completed("remove", e, IF e \in DOMAIN jobs THEN "true" ELSE "false")
    /\ instances' = [instances EXCEPT ![e] = 0]
    /\ jpc' = [jpc EXCEPT ![e] = "idle"]
    /\ pc' = IF jpc[e] = "sending" THEN [pc EXCEPT ![jcall[e]] = "done"] ELSE pc
    /\ UNCHANGED <<is_running, engine, events, spc, loadQueue, attempted, fired>>
    /\ UNCHANGED <<now, notifications, dedupLog, draft, ret, dispatches, sends,
                   chanOutcome, seenAtCheck, shouldSend, faults, jcall, jres>>
    /\ UNCHANGED routeVars

\* remove_scheduled_event, answering True with the job left in place
RemoveScheduledEvent_KeepsJob(e) ==
    /\ spc = "idle" /\ ops < MaxOps
    /\ jobs' = jobs
    /\ Completed("remove", e, IF e \in DOMAIN jobs THEN "true" ELSE "false")
    /\ UNCHANGED <<is_running, engine, events, spc, loadQueue, attempted,
                   fired, instances>>
    /\ UNCHANGED sendVars
    /\ UNCHANGED jobVars
    /\ UNCHANGED routeVars

\* remove_scheduled_event(event_id): self.scheduler.remove_job(str(event_id)),
\* which raises a lookup error for an id that has no job
RemoveScheduledEvent(e) ==
    /\ spc = "idle" /\ ops < MaxOps
    /\ jobs' = [k \in DOMAIN jobs \ {e} |-> jobs[k]]
    /\ Completed("remove", e, IF e \in DOMAIN jobs THEN "true" ELSE "false")
    /\ unscheduled' = IF e \in DOMAIN jobs THEN unscheduled \cup {e} ELSE unscheduled
    /\ UNCHANGED <<is_running, engine, events, spc, loadQueue, attempted,
                   fired, instances>>
    /\ UNCHANGED sendVars
    /\ UNCHANGED jobVars
    /\ UNCHANGED requestVars

\* update_scheduled_event(event) with event.id = e and event.data = d:
\* remove_scheduled_event, its result ignored, then add_scheduled_event
UpdateScheduledEvent(e, d) ==
    /\ spc = "idle" /\ ops < MaxOps
    /\ LET removed == [k \in DOMAIN jobs \ {e} |-> jobs[k]]
           r == add_event_job(removed, e, d)
           result == IF ~ is_running \/ r.raised THEN "false" ELSE "true"
       IN  /\ jobs' = IF is_running THEN r.jobs ELSE removed
           /\ Completed("update", e, result)
           /\ unscheduled' = IF e \in DOMAIN jobs' THEN unscheduled \ {e}
                             ELSE IF e \in DOMAIN jobs THEN unscheduled \cup {e}
                             ELSE unscheduled
    /\ UNCHANGED <<is_running, engine, events, spc, loadQueue, attempted,
                   fired, instances>>
    /\ UNCHANGED sendVars
    /\ UNCHANGED jobVars
    /\ UNCHANGED requestVars

\* Fire, starting an execution however many are running
Fire_NoInstanceLimit(e) ==
    /\ engine = "running"
    /\ e \in DOMAIN jobs
    /\ instances' = [instances EXCEPT ![e] = @ + 1]
    /\ fired' = fired \cup {e}
    /\ UNCHANGED <<is_running, engine, jobs, events, spc, loadQueue, attempted,
                   lastOp, ops>>
    /\ UNCHANGED sendVars
    /\ UNCHANGED jobVars
    /\ UNCHANGED routeVars

\* the running engine finds the trigger of job e due: it hands
\* process_scheduled_event to the worker pool, or skips the run when
\* max_instances executions of the job are still running
Fire(e) ==
    /\ engine = "running"
    /\ e \in DOMAIN jobs
    /\ IF instances[e] < max_instances
       THEN /\ instances' = [instances EXCEPT ![e] = @ + 1]
            /\ fired' = fired \cup {e}
       ELSE UNCHANGED <<instances, fired>>
    /\ UNCHANGED <<is_running, engine, jobs, events, spc, loadQueue, attempted,
                   lastOp, ops>>
    /\ UNCHANGED sendVars
    /\ UNCHANGED jobVars
    /\ UNCHANGED routeVars

\* process_scheduled_event returns; nothing it raises leaves it
Finish(e) ==
    /\ instances[e] > 0
    /\ instances' = [instances EXCEPT ![e] = @ - 1]
    /\ UNCHANGED <<is_running, engine, jobs, events, spc, loadQueue, attempted,
                   fired, lastOp, ops>>
    /\ UNCHANGED sendVars
    /\ UNCHANGED jobVars
    /\ UNCHANGED routeVars

\* the scheduler over any persisted scheduled events; the ids are
\* interchangeable (the load order is free), so the rows are numbered by their data
InitSched ==
    /\ InitSend
    /\ \E ev \in [EventIds -> EventDatas] :
          /\ \A i, j \in EventIds : i < j => DataRank(ev[i]) <= DataRank(ev[j])
          /\ InitScheduler(ev)

NextSched ==
    \/ Start_AlreadyRunning
    \/ Start_Begin
    \/ \E e \in EventIds : LoadEvent(e)
    \/ Start_Engine
    \/ Stop_NotRunning
    \/ Stop
    \/ \E e \in EventIds : AddScheduledEvent(e)
    \/ \E e \in EventIds : RemoveScheduledEvent(e)
    \/ \E e \in EventIds : Fire(e)
    \/ \E e \in EventIds : Finish(e)

SpecSched == InitSched /\ [][NextSched]_vars

\* the scheduler over persisted events that all register, its jobs
\* re-registered at runtime from edited events
NextUpdate ==
    \/ Start_Begin
    \/ \E e \in EventIds : LoadEvent(e)
    \/ Start_Engine
    \/ Stop
    \/ \E e \in EventIds, d \in EventDatas : UpdateScheduledEvent(e, d)
    \/ \E e \in EventIds : Fire(e)
    \/ \E e \in EventIds : Finish(e)

SpecUpdate == Init /\ [][NextUpdate]_vars

\* ---------------------------------------------------------------------------
\* The job body process_scheduled_event, run by the worker pool for a job the
\* engine fired, and the send_notification call it makes on its own session.
\* ---------------------------------------------------------------------------

\* a row of the events table disappears (no code of the service deletes one)
DeleteEvent(e) ==
    /\ spc = "idle"
    /\ e \in DOMAIN events
    /\ events' = [k \in DOMAIN events \ {e} |-> events[k]]
    /\ UNCHANGED <<is_running, engine, jobs, spc, loadQueue, attempted,
                   fired, instances, lastOp, ops>>
    /\ UNCHANGED sendVars
    /\ UNCHANGED jobVars
    /\ UNCHANGED routeVars

\* the body so far ends: logged, nothing raised
Ends(e, how) ==
    /\ jres' = [jres EXCEPT ![e] = how]
    /\ jpc' = [jpc EXCEPT ![e] = "return"]
    /\ UNCHANGED <<jcall, pc, draft>>

\* JobLoad, a failure of the body shutting the scheduler down
JobLoad_StopsScheduler(e) ==
    /\ instances[e] > 0
    /\ jpc[e] = "idle"
    /\ \/ /\ e \notin DOMAIN events
          /\ Ends(e, "notfound")
          /\ UNCHANGED <<is_running, engine>>
       \/ /\ e \in DOMAIN events
          /\ Ends(e, "error")
          /\ is_running' = FALSE
          /\ engine' = "stopped"
    /\ UNCHANGED <<jobs, events, spc, loadQueue, attempted,
                   fired, instances, lastOp, ops>>
    /\ UNCHANGED <<now, notifications, dedupLog, ret, dispatches, sends,
                   chanOutcome, seenAtCheck, shouldSend, faults>>
    /\ UNCHANGED routeVars

\* JobLoad, a missing event reaching the worker pool as an exception
JobLoad_RaisesOnMissing(e) ==
    /\ instances[e] > 0
    /\ jpc[e] = "idle"
    /\ Ends(e, IF e \in DOMAIN events THEN "error" ELSE "escaped")
    /\ UNCHANGED <<is_running, engine, jobs, events, spc, loadQueue, attempted,
                   fired, instances, lastOp, ops>>
    /\ UNCHANGED <<now, notifications, dedupLog, ret, dispatches, sends,
                   chanOutcome, seenAtCheck, shouldSend, faults>>
    /\ UNCHANGED routeVars

\* process_scheduled_event up to its send loop: get_scheduled_event_by_id (not
\* found: log, return), _create_event_instance (None: log, return),
\* create_notifications (a template error reaches the outer except), then
\* send_notification on the one draft of the report
JobLoad(e) ==
    /\ instances[e] > 0
    /\ jpc[e] = "idle"
    /\ IF e \notin DOMAIN events
       THEN Ends(e, "notfound")
       ELSE IF DailyStatEvent(events[e]) # "handler"
       THEN Ends(e, "noinstance")
       ELSE \/ Ends(e, "error")
            \/ \E p \in Calls :
                  /\ pc[p] = "idle"
                  /\ \A q \in Calls : q < p => pc[q] # "idle"
                  /\ draft' = [draft EXCEPT ![p] =
                                  [NewDraft(p, "slack", events[e].slack_channel, DailyContent)
                                      EXCEPT !.event_id = e]]
                  /\ pc' = [pc EXCEPT ![p] = "create"]
                  /\ jcall' = [jcall EXCEPT ![e] = p]
                  /\ jpc' = [jpc EXCEPT ![e] = "sending"]
                  /\ UNCHANGED jres
    /\ UNCHANGED <<is_running, engine, jobs, events, spc, loadQueue, attempted,
                   fired, instances, lastOp, ops>>
    /\ UNCHANGED <<now, notifications, dedupLog, ret, dispatches, sends,
                   chanOutcome, seenAtCheck, shouldSend, faults>>
    /\ UNCHANGED routeVars

\* process_scheduled_event returns to the worker pool: after the send loop, the
\* result of send_notification tallied, or after one of the early ends
JobReturn(e) ==
    /\ instances[e] > 0
    /\ \/ /\ jpc[e] = "return"
          /\ UNCHANGED jres
       \/ /\ jpc[e] = "sending"
          /\ pc[jcall[e]] = "done"
          /\ jres' = [jres EXCEPT ![e] = IF ret[jcall[e]] = "raised" THEN "error" ELSE "ok"]
    /\ jpc' = [jpc EXCEPT ![e] = "idle"]
    /\ instances' = [instances EXCEPT ![e] = @ - 1]
    /\ UNCHANGED <<is_running, engine, jobs, events, spc, loadQueue, attempted,
                   fired, lastOp, ops, jcall>>
    /\ UNCHANGED sendVars
    /\ UNCHANGED routeVars

\* the scheduler over events that all register, with the bodies of its jobs
InitJobs ==
    /\ InitSend
    /\ \E ev \in [1..NumJobs -> JobEventDatas] : InitScheduler(ev)

\* the scheduler over persisted events whose source is not daily_stat
InitJobSources ==
    /\ InitSend
    /\ \E ev \in [1..NumJobs -> SourcedEventDatas] : InitScheduler(ev)

NextJobs ==
    \/ Start_Begin
    \/ \E e \in EventIds : LoadEvent(e)
    \/ Start_Engine
    \/ \E e \in EventIds : RemoveScheduledEvent(e)
    \/ \E e \in EventIds : DeleteEvent(e)
    \/ \E e \in EventIds : Fire(e)
    \/ \E e \in EventIds : JobLoad(e)
    \/ \E e \in EventIds : JobReturn(e)
    \/ \E p \in Calls : Create(p)
    \/ \E p \in Calls : Dedup(p)
    \/ \E p \in Calls : Record(p)
    \/ \E p \in Calls : MarkDuplicate(p)
    \/ \E p \in Calls : Dispatch(p)
    \/ \E p \in Calls : MarkSent(p)
    \/ \E p \in Calls : HandleException(p)

SpecJobs == InitJobs /\ [][NextJobs]_vars

\* the same scheduler and job bodies over the events of other sources
SpecJobSources == InitJobSources /\ [][NextJobs]_vars

\* ---------------------------------------------------------------------------
\* The route scheduled_event and the lifecycle of the scheduler around it.
\* ---------------------------------------------------------------------------

\* the cron expressions the validator of ScheduledEventRequest lets through
\* (five fields), in Event.data as the route builds it
AcceptedDatas == {EventData(Daily9), EventData(BadHour)}

\* scheduled_event: the event is stored under the next id; with enabled it is
\* handed to add_scheduled_event, whose False becomes a 500 response; without
\* enabled it is stored and nothing else (the flag itself is not stored)
ScheduledEvent(e, d, enabled) ==
    /\ spc = "idle" /\ is_running
    /\ e \in EventIds \ DOMAIN events
    /\ \A f \in EventIds : f < e => f \in DOMAIN events
    /\ events' = (e :> d) @@ events
    /\ IF enabled
       THEN /\ ops < MaxOps
            /\ LET r == add_event_job(jobs, e, d)
               IN  /\ jobs' = r.jobs
                   /\ Completed("add", e, IF r.raised THEN "false" ELSE "true")
                   /\ rres' = IF r.raised THEN "500" ELSE "success"
            /\ UNCHANGED unscheduled
       ELSE /\ rres' = "success"
            /\ unscheduled' = unscheduled \cup {e}
            /\ UNCHANGED <<jobs, lastOp, ops>>
    /\ UNCHANGED <<is_running, engine, spc, loadQueue, attempted, fired, instances>>
    /\ UNCHANGED <<rpc, rin, rtEvents, rdrafts>>
    /\ UNCHANGED sendVars
    /\ UNCHANGED jobVars

\* the scheduler over the events stored before the application started, one
\* event id left for the route
InitLifecycle ==
    /\ InitSend
    /\ \E ev \in [1..(NumEvents - 1) -> EventDatas] :
          /\ \A e, f \in DOMAIN ev : e < f => DataRank(ev[e]) <= DataRank(ev[f])
          /\ InitScheduler(ev)

NextLifecycle ==
    \/ Start_AlreadyRunning
    \/ Start_Begin
    \/ \E e \in EventIds : LoadEvent(e)
    \/ Start_Engine
    \/ Start_EngineRaises
    \/ Stop_NotRunning
    \/ Stop
    \/ \E e \in EventIds : RemoveScheduledEvent(e)
    \/ \E e \in EventIds, d \in AcceptedDatas, enabled \in BOOLEAN : ScheduledEvent(e, d, enabled)
    \/ \E e \in EventIds : Fire(e)
    \/ \E e \in EventIds : Finish(e)

\* start, stop and the requests in between
SpecLifecycle == InitLifecycle /\ [][NextLifecycle]_vars

\* ---------------------------------------------------------------------------
\* The route real_time_event: one request, handled synchronously.
\* ---------------------------------------------------------------------------

\* EventRepository.create_event: a new row, processed = False
create_event(rows, type, data) ==
    Append(rows, [type |-> type, data |-> data, processed |-> FALSE])

\* the request arrives and event_data is built from it
RT_Request(d) ==
    /\ rpc = "idle"
    /\ rin' = d
    /\ rpc' = "create"
    /\ UNCHANGED <<rres, rtEvents, rdrafts, unscheduled>>
    /\ UNCHANGED <<sendVars, is_running, engine, jobs, events, spc, loadQueue,
                   attempted, fired, instances, lastOp, ops, jobVars>>

\* real_time_event: repos.events.create_event(EventType.REALTIME.value, event_data)
RT_CreateEvent ==
    /\ rpc = "create"
    /\ rtEvents' = create_event(rtEvents, "realtime", rin)
    /\ rpc' = "process"
    /\ UNCHANGED <<rin, rres, rdrafts, unscheduled>>
    /\ UNCHANGED <<sendVars, is_running, engine, jobs, events, spc, loadQueue,
                   attempted, fired, instances, lastOp, ops, jobVars>>

\* the drafts of a handler: SignupEvent.create_notifications gives an email and
\* a slack message, DailyStatEvent.create_notifications the slack report
DraftsOf(source, data, event_id) ==
    IF source = "user_signup"
    THEN <<[NewDraft(1, "email", data["recipient"], "c1") EXCEPT !.event_id = event_id],
           [NewDraft(2, "slack", data["slack_channel"], "c2") EXCEPT !.event_id = event_id]>>
    ELSE <<[NewDraft(1, "slack", data["slack_channel"], DailyContent)
               EXCEPT !.event_id = event_id]>>

\* the details of the 400 responses, str(e) of the ValueError caught
BadRequest == {"NotADict", "NoSource", "UnknownSource", "MissingField"}

\* the request ends with response r and nothing sent
Responds(r) ==
    /\ rres' = r
    /\ rpc' = "done"
    /\ UNCHANGED <<rdrafts, pc, draft>>

\* real_time_event: event_manager.process_realtime_event(event_data), which
\* creates an event again, builds the handler (a ValueError becomes a 400) and
\* has it draft its notifications (a template error becomes a 500); then the
\* first send_notification is entered
RT_Process ==
    /\ rpc = "process"
    /\ rtEvents' = create_event(rtEvents, "realtime", rin)
    /\ LET h == create_event_source(rin)
       IN  IF h.kind = "error"
           THEN Responds(h.what)
           ELSE \/ Responds("500")
                \/ LET ds == DraftsOf(h.what, rin.map, Len(rtEvents'))
                   IN  /\ draft' = [p \in Calls |-> IF p <= Len(ds) THEN ds[p] ELSE draft[p]]
                       /\ pc' = [pc EXCEPT ![1] = "create"]
                       /\ rdrafts' = Len(ds)
                       /\ rpc' = "sending"
                       /\ UNCHANGED rres
    /\ UNCHANGED <<rin, unscheduled>>
    /\ UNCHANGED <<now, notifications, dedupLog, ret, dispatches, sends,
                   chanOutcome, seenAtCheck, shouldSend, faults>>
    /\ UNCHANGED <<is_running, engine, jobs, events, spc, loadQueue,
                   attempted, fired, instances, lastOp, ops, jobVars>>

\* real_time_event: the loop goes on to send_notification on the next draft
RT_NextSend ==
    /\ rpc = "sending"
    /\ \E p \in Calls :
          /\ p < rdrafts
          /\ pc[p] = "done" /\ pc[p + 1] = "idle"
          /\ pc' = [pc EXCEPT ![p + 1] = "create"]
    /\ UNCHANGED <<now, notifications, dedupLog, draft, ret, dispatches, sends,
                   chanOutcome, seenAtCheck, shouldSend, faults>>
    /\ UNCHANGED routeVars
    /\ UNCHANGED <<is_running, engine, jobs, events, spc, loadQueue,
                   attempted, fired, instances, lastOp, ops, jobVars>>

\* real_time_event: every draft was handed to send_notification; the response
\* is returned (no step of the route marks the event processed)
RT_Return ==
    /\ rpc = "sending"
    /\ \A p \in Calls : p <= rdrafts => pc[p] = "done"
    /\ rres' = "success"
    /\ rpc' = "done"
    /\ UNCHANGED <<rin, rtEvents, rdrafts, unscheduled>>
    /\ UNCHANGED <<sendVars, is_running, engine, jobs, events, spc, loadQueue,
                   attempted, fired, instances, lastOp, ops, jobVars>>

\* The two drafts of one request differ in content, so should_send finds no
\* earlier notification and the duplicate branch of send_notification is not
\* entered in this specification.
NextRealtime ==
    \/ \E d \in RequestDatas : RT_Request(d)
    \/ RT_CreateEvent
    \/ RT_Process
    \/ RT_NextSend
    \/ RT_Return
    \/ \E p \in Calls : Create(p)
    \/ \E p \in Calls : Dedup(p)
    \/ \E p \in Calls : Dispatch(p)
    \/ \E p \in Calls : MarkSent(p)
    \/ \E p \in Calls : HandleException(p)

\* one real-time event posted to the service
SpecRealtime == Init /\ [][NextRealtime]_vars

\* ---------------------------------------------------------------------------
\* Properties
\* ---------------------------------------------------------------------------
HasRow(p) == draft[p].id \in DOMAIN notifications
Row(p) == notifications[draft[p].id]
Returned(p) == ret[p] \in {"true", "false"}

\* C1: once send_notification(n) has returned, whatever the dedup check and the
\* channel call did, the stored status of n is sent, failed or duplicate; a
\* returned call stays returned, so no later state shows n as pending.
C1_TerminalAfterReturn ==
    \A p \in Calls : Returned(p) => HasRow(p) /\ Row(p).status \in Terminal

\* C1 witness: one call has returned true and the other false, both stored rows terminal
C1_Witness ==
    /\ ret[1] = "true" /\ HasRow(1) /\ Row(1).status = SENT
    /\ ret[2] = "false" /\ HasRow(2) /\ Row(2).status \in {FAILED, DUPLICATE}

\* C2 (as claimed): a row is created as pending, changes status only from
\* pending to one of sent / failed / duplicate, and a terminal status is never
\* overwritten, also when a status update raises part-way.
C2_Original ==
    [][\A i \in DOMAIN notifications' :
          IF i \notin DOMAIN notifications
          THEN notifications'[i].status = PENDING
          ELSE \/ notifications'[i].status = notifications[i].status
               \/ /\ notifications[i].status = PENDING
                  /\ notifications'[i].status \in Terminal]_vars

\* C3: the draft is stored with status pending before the dedup check and before
\* any channel dispatch of its call, and a row becomes duplicate only from pending.
C3_PersistFirst ==
    [][\A p \in Calls :
          /\ (shouldSend[p] = "none" /\ shouldSend'[p] # "none")
                => HasRow(p) /\ Row(p).status = PENDING
          /\ (dispatches'[p] > dispatches[p])
                => HasRow(p) /\ Row(p).status = PENDING
          /\ (draft[p].id \in DOMAIN notifications'
                /\ notifications'[draft[p].id].status = DUPLICATE
                /\ ~ (HasRow(p) /\ Row(p).status = DUPLICATE))
                => HasRow(p) /\ Row(p).status = PENDING /\ shouldSend[p] = "no"]_vars

\* C3 witness: a suppressed call has finished and its stored row is duplicate
C3_Witness ==
    \E p \in Calls : pc[p] = "done" /\ shouldSend[p] = "no" /\ HasRow(p) /\ Row(p).status = DUPLICATE

\* C4 (as claimed): two drafts with the same content hash, the first drafted less
\* than WindowSeconds before the second and stored before the second's dedup
\* check: the first ends sent or failed and the second ends duplicate.
C4_Original ==
    \A p, q \in Calls :
        ( /\ p # q
          /\ Returned(p) /\ Returned(q)
          /\ draft[p].content_hash = draft[q].content_hash
          /\ draft[p].created_at < draft[q].created_at
          /\ draft[q].created_at - draft[p].created_at < WindowSeconds
          /\ draft[p].id \in seenAtCheck[q] )
        => /\ Row(p).status \in {SENT, FAILED}
           /\ Row(q).status = DUPLICATE

\* C5: the dedup check of a candidate answers "do not send" exactly when the
\* table holds a row with another id, the same content hash and a created_at no
\* more than WindowSeconds before the time of the check.
C5_SuppressIff ==
    [][\A p \in Calls :
          (shouldSend[p] = "none" /\ shouldSend'[p] # "none")
          => ( shouldSend'[p] = "no"
               <=> \E m \in DOMAIN notifications :
                      /\ m # draft[p].id
                      /\ notifications[m].content_hash = draft[p].content_hash
                      /\ now - notifications[m].created_at <= WindowSeconds )]_vars

\* C5 witness: a candidate passed the check although a same-hash row of another
\* id was in the table, because that row was more than WindowSeconds old
C5_Witness ==
    \E p, q \in Calls :
        /\ p # q
        /\ shouldSend[q] = "yes"
        /\ draft[p].id \in seenAtCheck[q]
        /\ draft[p].content_hash = draft[q].content_hash

\* C6 (as claimed): not suppressed and the channel's send returned false: the
\* notification is marked failed, sent_at stays unset, the call returns false.
C6_Original ==
    \A p \in Calls :
        (pc[p] = "done" /\ chanOutcome[p] = "false")
        => ret[p] = "false" /\ Row(p).status = FAILED /\ Row(p).sent_at = NoTime

\* C7: not suppressed and the channel is unknown, or its validate_config is
\* false, or its send raises: the notification is marked failed with sent_at
\* unset, the call returns false, and the dispatch was attempted once only.
C7_DispatchError ==
    \A p \in Calls :
        (pc[p] = "done" /\ chanOutcome[p] \in {"unknown", "invalid", "raise"})
        => /\ ret[p] = "false"
           /\ HasRow(p) /\ Row(p).status = FAILED /\ Row(p).sent_at = NoTime
           /\ dispatches[p] = 1 /\ sends[p] <= 1

\* C7 witness: one call ended on a raising send, the other on an unknown channel
C7_Witness ==
    /\ pc[1] = "done" /\ chanOutcome[1] = "raise" /\ ret[1] = "false"
    /\ pc[2] = "done" /\ chanOutcome[2] = "unknown" /\ ret[2] = "false"

\* C8: send_notification returns true exactly when the stored status ends as
\* sent (then sent_at is set); a false return means failed or duplicate.
C8_ReturnMatchesStatus ==
    \A p \in Calls :
        pc[p] = "done"
        => /\ Returned(p) /\ HasRow(p)
           /\ ret[p] = "true" <=> Row(p).status = SENT
           /\ ret[p] = "true" => Row(p).sent_at # NoTime
           /\ ret[p] = "false" => Row(p).status \in {FAILED, DUPLICATE}

\* C8 witness: a call returned true on a sent row, another returned false on a failed row
C8_Witness ==
    \E p, q \in Calls :
        /\ pc[p] = "done" /\ ret[p] = "true" /\ Row(p).status = SENT
        /\ pc[q] = "done" /\ ret[q] = "false" /\ Row(q).status = FAILED

\* C9 (as claimed): a stored notification has sent_at set only if its status is sent.
C9_Original ==
    \A i \in DOMAIN notifications :
        notifications[i].sent_at # NoTime => notifications[i].status = SENT

\* C10: no exception leaves send_notification when the channel call fails: the
\* caller gets a boolean and the stored row ends in a terminal status.
C10_NoEscape ==
    \A p \in Calls :
        /\ ret[p] # "raised"
        /\ (pc[p] = "done" /\ chanOutcome[p] \in {"false", "raise", "unknown", "invalid"})
              => Returned(p) /\ HasRow(p) /\ Row(p).status \in Terminal

\* C10 witness: a call whose channel send raised has finished with a boolean
C10_Witness ==
    \E p \in Calls : pc[p] = "done" /\ chanOutcome[p] = "raise" /\ Returned(p)

\* C11 (as claimed): an exception raised by a repository operation of
\* send_notification (the call is in its except clause although its channel call
\* did not fail) leaves the call as an error and not as an ordinary return value.
C11_Original ==
    [][\A p \in Calls :
          ( /\ pc[p] = "except"
            /\ chanOutcome[p] \notin {"raise", "unknown", "invalid"}
            /\ pc'[p] = "done" )
          => ret'[p] = "raised"]_vars

\* the calls that have written a deduplication-log entry for hash h: their check
\* answered "do not send" and they are past record_duplication
Logged(h) ==
    {p \in Calls : /\ draft[p].content_hash = h
                   /\ shouldSend[p] = "no"
                   /\ pc[p] \in {"markdup", "done"}}

Blank(n) ==
    [n EXCEPT !.channel = "any", !.recipient = "any", !.subject = "any",
              !.content = "any", !.status = PENDING, !.sent_at = NoTime]
BlankTable(tbl) == [m \in DOMAIN tbl |-> Blank(tbl[m])]

\* C13: a stored row of another id with the same content hash inside the window
\* suppresses the candidate also when recipient and channel differ, and the
\* answer of the check is the same on a table that keeps only id, content_hash
\* and created_at.
C13_GlobalPerHash ==
    [][\A p \in Calls :
          (shouldSend[p] = "none" /\ shouldSend'[p] # "none")
          => /\ ( \E m \in DOMAIN notifications :
                     /\ m # draft[p].id
                     /\ notifications[m].content_hash = draft[p].content_hash
                     /\ now - notifications[m].created_at <= WindowSeconds
                     /\ notifications[m].recipient # draft[p].recipient
                     /\ notifications[m].channel # draft[p].channel )
                => shouldSend'[p] = "no"
             /\ shouldSend'[p] = "yes"
                <=> should_send(BlankTable(notifications), Blank(draft[p]))]_vars

\* C13 witness: a call was suppressed by a stored row with the same hash whose
\* recipient and channel both differ from its own
C13_Witness ==
    \E p, q \in Calls :
        /\ p # q
        /\ shouldSend[q] = "no"
        /\ draft[p].id \in seenAtCheck[q]
        /\ draft[p].content_hash = draft[q].content_hash
        /\ draft[p].recipient # draft[q].recipient
        /\ draft[p].channel # draft[q].channel

\* the draft of call p is no older than the window
InWindow(p) == draft[p].created_at # NoTime /\ now - draft[p].created_at <= WindowSeconds

\* two calls with identical content whose checks have both run
BothChecked(p, q) ==
    /\ p # q
    /\ draft[p].content_hash = draft[q].content_hash
    /\ shouldSend[p] # "none" /\ shouldSend[q] # "none"

\* each of the two calls had stored its row when the other ran its check
Overlapping(p, q) ==
    /\ draft[p].id \in seenAtCheck[q]
    /\ draft[q].id \in seenAtCheck[p]

Begins(e) == instances'[e] > instances[e]

\* the call that completes in this step
Completes(o) == ops' = ops + 1 /\ lastOp'.op = o

\* the cron of a persisted event has exactly five fields
FiveFields(e) == "cron" \in DOMAIN events[e] /\ Len(split(events[e].cron)) = 5

\* the persisted event has a cron from which a job can be registered
ValidCron(e) == ~ add_event_job(jobs, e, events[e]).raised /\ "cron" \in DOMAIN events[e]

\* C15: start() on a running scheduler and stop() on one that is not running
\* leave the running flag, the engine and the jobs as they were and raise nothing.
C15_NoOps ==
    [][ /\ (Completes("start") /\ is_running)
            => /\ is_running' /\ engine' = engine /\ jobs' = jobs
               /\ lastOp'.result = "noop"
        /\ (Completes("stop") /\ ~ is_running)
            => /\ ~ is_running' /\ engine' = engine /\ jobs' = jobs
               /\ lastOp'.result = "noop" ]_vars

\* C15 witness: start() has just returned on a scheduler that was running with
\* a job registered
C15_Witness ==
    /\ lastOp.op = "start" /\ lastOp.result = "noop"
    /\ is_running /\ DOMAIN jobs # {}

\* C16 (as claimed): when start() has completed, the scheduler is running and
\* every persisted scheduled event with a valid cron has a job, wherever the
\* events whose registration failed stood in the load order.
C16_Original ==
    (lastOp.op = "start" /\ lastOp.result = "ok")
    => /\ is_running
       /\ \A e \in DOMAIN events : ValidCron(e) => e \in DOMAIN jobs

\* C17 (as claimed): an execution of a job begins only when start() has
\* returned and every persisted scheduled event has either a job or a failed
\* registration attempt of the bulk load behind it.
C17_Original ==
    [][\A e \in EventIds :
          Begins(e)
          => /\ is_running /\ spc = "idle"
             /\ \A f \in DOMAIN events : f \in attempted \/ f \in DOMAIN jobs]_vars

\* C18: add_scheduled_event on a scheduler that is not running returns false
\* and leaves the jobs as they were.
C18_AddWhenStopped ==
    [][(Completes("add") /\ ~ is_running)
          => lastOp'.result = "false" /\ jobs' = jobs]_vars

\* C18 witness: an event with a valid cron was refused on a stopped scheduler
C18_Witness ==
    /\ lastOp.op = "add" /\ lastOp.result = "false"
    /\ ~ is_running
    /\ ValidCron(lastOp.id) /\ lastOp.id \notin DOMAIN jobs

\* C19 (as claimed): add_scheduled_event on a running scheduler returns false
\* and registers nothing for an event without a cron or with a cron that has not
\* exactly five fields, and returns true only with a job for the event registered.
C19_Original ==
    [][(Completes("add") /\ is_running)
          => LET e == lastOp'.id
             IN  /\ ~ FiveFields(e) => lastOp'.result = "false" /\ jobs' = jobs
                 /\ lastOp'.result = "true" => e \in DOMAIN jobs']_vars

\* C20: a successful remove_scheduled_event leaves no job under that id, and an
\* execution begins only for an id that has a job in the running engine: after
\* the removal none begins until the event is registered again.
C20_NoRunAfterRemove ==
    [][\A e \in EventIds :
          /\ (Completes("remove") /\ lastOp'.id = e /\ lastOp'.result = "true")
                => e \in DOMAIN jobs /\ e \notin DOMAIN jobs'
          /\ Begins(e)
                => e \in DOMAIN jobs /\ engine = "running"]_vars

\* C20 witness: a job that had not fired was removed from the running scheduler
\* while the job of another event went on to fire
C20_Witness ==
    \E e, f \in EventIds :
        /\ lastOp = [op |-> "remove", id |-> e, result |-> "true"]
        /\ is_running /\ e \notin DOMAIN jobs /\ e \notin fired
        /\ f # e /\ f \in fired

\* C28: in every reachable state the stored content_hash of every stored
\* notification is the hash of its stored content.
C28_HashRoundTrip ==
    \A i \in DOMAIN notifications :
        get_content_hash(notifications[i].content) = notifications[i].content_hash

\* C28 witness: two rows with different contents are stored, one sent and one failed
C28_Witness ==
    \E i, j \in DOMAIN notifications :
        /\ notifications[i].content # notifications[j].content
        /\ notifications[i].status = SENT
        /\ notifications[j].status = FAILED

\* the columns of a stored row that only the insert writes
Written(n) ==
    <<n.id, n.event_id, n.channel, n.recipient, n.subject, n.content,
      n.content_hash, n.created_at>>

\* C29: once a row is stored, every later step of send_notification leaves its
\* content, content_hash, channel, recipient, event id, subject and created_at
\* as the insert wrote them, whatever the outcome of the dispatch.
C29_OnlyStatusChanges ==
    [][\A i \in DOMAIN notifications :
          /\ i \in DOMAIN notifications'
          /\ Written(notifications'[i]) = Written(notifications[i])]_vars

\* C29 witness: a call whose dispatch failed has ended with its row failed,
\* sent_at unset and the written columns equal to those of its draft
C29_Witness ==
    \E p \in Calls :
        /\ pc[p] = "done" /\ chanOutcome[p] = "raise"
        /\ HasRow(p) /\ Row(p).status = FAILED /\ Row(p).sent_at = NoTime
        /\ Written(Row(p)) = Written(draft[p])

\* C23: at every moment at most one execution of the body of any job is
\* running, also when its trigger comes due while an execution is in progress.
C23_OneInstance ==
    \A e \in EventIds : instances[e] <= 1

\* C23 witness: an execution of a job is in progress while the job is registered
\* in the running engine, so that its trigger can come due again
C23_Witness ==
    \E e \in EventIds :
        /\ instances[e] = 1
        /\ engine = "running" /\ e \in DOMAIN jobs
        /\ ENABLED Fire(e)

\* the trigger a job registered from event data d carries
TriggerOf(d) == CronTrigger(parse_cron(d.cron).parts).trigger

\* C22 (as claimed): when update_scheduled_event(event) reports success the job
\* of event.id is there with the trigger of the new cron, when it reports
\* failure no job of event.id is left, and the other jobs are as they were.
C22_Original ==
    [][\A e \in EventIds, d \in EventDatas :
          UpdateScheduledEvent(e, d)
          => /\ lastOp'.result = "true"
                  => /\ "cron" \in DOMAIN d
                     /\ e \in DOMAIN jobs' /\ jobs'[e].trigger = TriggerOf(d)
             /\ lastOp'.result = "false" => e \notin DOMAIN jobs'
             /\ \A f \in EventIds \ {e} :
                   /\ f \in DOMAIN jobs <=> f \in DOMAIN jobs'
                   /\ f \in DOMAIN jobs => jobs'[f] = jobs[f]]_vars

\* the ways process_scheduled_event ends without anything leaving it
Contained == {"none", "ok", "notfound", "noinstance", "error"}

\* the body of job e takes a step
BodyStep(e) ==
    \/ jpc'[e] # jpc[e]
    \/ jres'[e] # jres[e]
    \/ instances'[e] < instances[e]
    \/ jpc[e] = "sending" /\ pc'[jcall[e]] # pc[jcall[e]]

\* C21: remove_scheduled_event leaves a running body of the job and its
\* send_notification call as they are; a body that returns from its send loop
\* has its notification stored with a terminal status, registered or not; and
\* an execution begins only for a job that is registered.
C21_RemovalDoesNotCancel ==
    [][ /\ Completes("remove")
            => UNCHANGED <<instances, jpc, jcall, jres, callVars, notifications, dedupLog>>
        /\ \A e \in EventIds :
              /\ (instances'[e] < instances[e] /\ jpc[e] = "sending")
                    => /\ HasRow(jcall[e])
                       /\ Row(jcall[e]).status \in Terminal
                       /\ Row(jcall[e]).event_id = e
              /\ Begins(e) => e \in DOMAIN jobs ]_vars

\* C21 witness: the job was removed while its body was in flight, and the body,
\* its notification stored as pending, is about to make its channel call
C21_Witness ==
    \E e \in EventIds :
        /\ lastOp = [op |-> "remove", id |-> e, result |-> "true"]
        /\ e \notin DOMAIN jobs
        /\ instances[e] = 1 /\ jpc[e] = "sending"
        /\ pc[jcall[e]] = "dispatch" /\ Row(jcall[e]).status = PENDING
        /\ ENABLED Dispatch(jcall[e])

\* C24: whatever a job body does and however it ends, nothing leaves it: its
\* steps change neither the running flag nor the engine nor any job, its own
\* included, so that every registered job goes on being fired.
C24_FaultIsolation ==
    [][\A e \in EventIds :
          BodyStep(e)
          => /\ is_running' = is_running /\ engine' = engine /\ jobs' = jobs
             /\ jres'[e] \in Contained]_vars

\* C24 witness: the body of one job failed and returned, the job is still
\* registered in the running scheduler, and the body of another job is running
C24_Witness ==
    \E e, f \in EventIds :
        /\ e # f
        /\ jres[e] \in {"noinstance", "error"} /\ instances[e] = 0
        /\ is_running /\ engine = "running" /\ e \in DOMAIN jobs
        /\ f \in DOMAIN jobs /\ instances[f] = 1 /\ jpc[f] = "sending"

\* C25: a body that starts for an event id with no row in the events table ends
\* as "not found" without raising, and from its start to its return no
\* notification is drafted, stored or dispatched.
C25_MissingEvent ==
    [][\A e \in EventIds :
          /\ (jpc[e] = "idle" /\ jpc'[e] # "idle" /\ e \notin DOMAIN events)
                => /\ jres'[e] = "notfound" /\ jpc'[e] = "return"
                   /\ UNCHANGED <<notifications, dedupLog, draft, pc, dispatches, sends>>
          /\ (jpc[e] = "return" /\ jres[e] = "notfound" /\ BodyStep(e))
                => /\ jres'[e] = "notfound" /\ jpc'[e] = "idle"
                   /\ UNCHANGED <<notifications, dedupLog, draft, pc, dispatches, sends>>]_vars

\* C25 witness: a job fired after its event had gone; its body has returned as
\* "not found", the job is still registered and no notification of the event exists
C25_Witness ==
    \E e \in EventIds :
        /\ e \notin DOMAIN events /\ e \in DOMAIN jobs
        /\ jres[e] = "notfound" /\ instances[e] = 0 /\ jpc[e] = "idle"
        /\ \A i \in DOMAIN notifications : notifications[i].event_id # e

\* ---------------------------------------------------------------------------
\* C26: classify(event) returns a handler if and only if event.data is a map
\* whose source names a registered handler and every key that handler requires
\* (cron included for the scheduled family) is present; an unregistered source
\* is answered with UnknownSource, a missing required key with MissingField.
Required(source) ==
    IF source = "user_signup"
    THEN {"user_name", "email", "service_name", "recipient", "slack_channel"}
    ELSE {"cron", "query", "recipient", "slack_channel"}

Classified == rpc \in {"sending", "done"}

C26_Classify ==
    Classified =>
        LET isMap == rin.isdict /\ "source" \in DOMAIN rin.map
            known == isMap /\ rin.map["source"] \in EVENT_TYPE_MAP
            complete == known /\ Required(rin.map["source"]) \subseteq DOMAIN rin.map
        IN  /\ (rres \notin BadRequest) <=> complete
            /\ (isMap /\ ~ known) => rres = "UnknownSource"
            /\ (known /\ ~ complete) => rres = "MissingField"

\* a daily_stat event without cron was refused with MissingField
C26_Witness ==
    /\ Classified
    /\ rin.map["source"] = "daily_stat"
    /\ {"query", "recipient", "slack_channel"} \subseteq DOMAIN rin.map
    /\ "cron" \notin DOMAIN rin.map
    /\ rres = "MissingField"

\* ---------------------------------------------------------------------------
\* C27: when a real-time event fails validation (unknown source or a missing
\* required field), no Notification is persisted or dispatched and nothing is
\* persisted beyond the one Event record created for the request.
C27_Original ==
    rres \in BadRequest =>
        /\ DOMAIN notifications = {}
        /\ \A p \in Calls : dispatches[p] = 0 /\ sends[p] = 0
        /\ \A h \in DOMAIN dedupLog : dedupLog[h] = 0
        /\ Len(rtEvents) = 1

\* ---------------------------------------------------------------------------
\* C30: the processed flag of a real-time event is true once its immediate
\* handling has completed (the flag of a scheduled event is written by no step
\* of the scheduler and stays false).
C30_Original ==
    (rpc = "done" /\ rres = "success") => rtEvents[1].processed

\* ---------------------------------------------------------------------------
\* C34 (as claimed): of two concurrent calls with identical content and no
\* earlier row of the same hash inside the window, at least one is dispatched:
\* the two are never both marked duplicate.
C34_Original ==
    \A p, q \in Calls :
        ( /\ p # q
          /\ Returned(p) /\ Returned(q)
          /\ draft[p].content_hash = draft[q].content_hash
          /\ Overlapping(p, q)
          /\ \A m \in DOMAIN notifications :
                notifications[m].content_hash = draft[p].content_hash
                => m \in {draft[p].id, draft[q].id} )
        => /\ dispatches[p] + dispatches[q] >= 1
           /\ ~ (Row(p).status = DUPLICATE /\ Row(q).status = DUPLICATE)

\* ---------------------------------------------------------------------------
\* C35 (as claimed): whenever a candidate is marked duplicate, a different row
\* with the same content hash created within the window has status sent; rows
\* that are pending, failed or duplicate do not cause suppression.
C35_Original ==
    [][\A p \in Calls :
          (pc[p] = "markdup" /\ pc'[p] = "done")
          => \E m \in DOMAIN notifications :
                /\ m # draft[p].id
                /\ notifications[m].content_hash = draft[p].content_hash
                /\ now - notifications[m].created_at <= WindowSeconds
                /\ notifications[m].status = SENT]_vars

\* ---------------------------------------------------------------------------
\* C38: in a state with no send_notification call in progress, for every
\* content hash the number of deduplication-log entries equals the number of
\* stored notifications of that hash whose status is duplicate.
Quiescent == \A p \in Calls : pc[p] \in {"idle", "done"}

Duplicates(h) ==
    {m \in DOMAIN notifications : /\ notifications[m].content_hash = h
                                  /\ notifications[m].status = DUPLICATE}

C39_OneSend ==
    \A p \in Calls :
        /\ sends[p] <= 1
        /\ dispatches[p] <= 1
        /\ shouldSend[p] = "no" => sends[p] = 0 /\ dispatches[p] = 0
        /\ (pc[p] # "idle" /\ ~ HasRow(p) /\ pc[p] # "create")
           => sends[p] = 0 /\ dispatches[p] = 0
        /\ sends[p] > 0 => HasRow(p) /\ shouldSend[p] = "yes"

\* C39 witness: one call's create raised before its check, the other call was
\* suppressed, and neither reached the channel
C39_Witness ==
    \E p, q \in Calls :
        /\ pc[p] = "done" /\ shouldSend[p] = "none" /\ sends[p] = 0 /\ dispatches[p] = 0
        /\ pc[q] = "done" /\ shouldSend[q] = "no" /\ sends[q] = 0 /\ dispatches[q] = 0

\* ---------------------------------------------------------------------------
\* C31 (as claimed): when a job fires, the handler that drafts its
\* notifications is the one the classifier selects from the event's source: for
\* a source other than daily_stat the draft is the one of that source's own
\* handler, and a source without a handler (or an event its handler refuses)
\* yields no draft at all; the draft never comes from a fixed handler type.
C31_Original ==
    \A e \in EventIds :
        (jpc[e] = "sending" /\ e \in DOMAIN events)
        => LET h == create_event_source([isdict |-> TRUE, map |-> events[e]])
               d == draft[jcall[e]]
           IN  /\ h.kind = "handler"
               /\ LET own == DraftsOf(h.what, events[e], e)[1]
                  IN  d.channel = own.channel /\ d.content = own.content

\* ---------------------------------------------------------------------------
\* C32: the scheduler goes stopped -> starting -> running -> stopping -> stopped
\* only: it is reported running only once the bulk load has been gone through
\* and the engine has started; a start() that raises leaves it not running; it
\* stops being reported running only by stop(); and a start() after a stop()
\* reports it running again with the stored events loaded anew.
RunningAfterStart ==
    (lastOp.op = "start" /\ lastOp.result = "ok" /\ spc = "idle")
    => /\ is_running /\ engine = "running"
       /\ \A e \in attempted : ValidCron(e) => e \in DOMAIN jobs
       /\ DOMAIN events # {} => attempted # {}

C33_OneJobPerEvent ==
    /\ [](\A e \in EventIds : Cardinality(JobsFor(jobs, e)) <= 1)
    /\ [](\A j \in DOMAIN jobs : jobs[j].args = j)
    /\ [][\A e \in EventIds :
             ( /\ Completes("add") /\ lastOp'.id = e /\ lastOp'.result = "true"
               /\ e \in DOMAIN jobs )
             => /\ Cardinality(DOMAIN jobs') = Cardinality(DOMAIN jobs)
                /\ jobs'[e].trigger = TriggerOf(events[e])]_vars

\* C33 witness: right after a start that registered the job of an event, the
\* event was added again and still has the one job
C33_Witness ==
    \E e \in EventIds :
        /\ ops = 2 /\ lastOp = [op |-> "add", id |-> e, result |-> "true"]
        /\ e \in attempted
        /\ JobsFor(jobs, e) = {e}

\* ---------------------------------------------------------------------------
\* C36 (as claimed): stopping and restarting the scheduler does not change
\* which events are scheduled: an event whose job was removed, or that was
\* accepted with enabled = false, has no job in the running scheduler.
C36_Original ==
    (is_running /\ spc = "idle") => \A e \in unscheduled : e \notin DOMAIN jobs

\* ---------------------------------------------------------------------------
\* C37 (as claimed): an accepted real-time request stores exactly one Event
\* record, and every notification drafted for the request carries the id of
\* that record, the id returned to the caller (the first row the request made).
C37_Original ==
    rres = "success"
    => /\ Len(rtEvents) = 1
       /\ \A p \in Calls : p <= rdrafts => draft[p].event_id = 1

====
